---- MODULE Spec2Model ----
(***************************************************************************)
(* Model of backend/app.py: the file-backed submission store (load_data,   *)
(* save_data, get_next_id) and the handlers submit_data, get_all_data and  *)
(* get_data_by_id.                                                         *)
(*                                                                         *)
(* Strings are sequences of one-character strings, so that str.strip()     *)
(* and float() are computed rather than assumed.  A JSON value is a record *)
(* [t, s, n]: t is its type, s its characters (strings), n its number      *)
(* (numbers), truth value as 0/1 (booleans) or length (arrays, objects     *)
(* that are not the request body).                                         *)
(***************************************************************************)
EXTENDS Integers, Sequences, FiniteSets, TLC

\* ------------------------------------------------------------------ bounds
NProcs == 2
MaxRecords == 2

Procs == 1..NProcs

\* ------------------------------------------------------------- JSON values
Absent == [t |-> "absent", s |-> <<>>, n |-> 0]
Null == [t |-> "null", s |-> <<>>, n |-> 0]
Str(s) == [t |-> "str", s |-> s, n |-> 0]
Num(n) == [t |-> "num", s |-> <<>>, n |-> n]
Bool(b) == [t |-> "bool", s |-> <<>>, n |-> IF b THEN 1 ELSE 0]
Arr(n) == [t |-> "arr", s |-> <<>>, n |-> n]
Obj(n) == [t |-> "obj", s |-> <<>>, n |-> n]

Whitespace == {" ", "\t", "\n"}
\* The strings a request field takes: empty, blank, plain and padded
Strings == {<<>>, <<" ">>, <<"\t", " ">>, <<"a">>, <<" ", "a">>, <<"a", "\n">>, <<" ", "a", " ">>}

\* Python truthiness: `not x`
Truthy(v) ==
    CASE v.t = "absent" -> FALSE
      [] v.t = "null" -> FALSE
      [] v.t = "str" -> v.s # <<>>
      [] OTHER -> v.n # 0

\* str.strip()
RECURSIVE LStrip(_)
LStrip(s) == IF s # <<>> /\ Head(s) \in Whitespace THEN LStrip(Tail(s)) ELSE s

RECURSIVE RStrip(_)
RStrip(s) ==
    IF s # <<>> /\ s[Len(s)] \in Whitespace
    THEN RStrip(SubSeq(s, 1, Len(s) - 1))
    ELSE s

Strip(s) == RStrip(LStrip(s))

DigitChars == <<"0", "1", "2", "3", "4", "5", "6", "7", "8", "9">>
IsDigit(c) == \E d \in 1..Len(DigitChars) : DigitChars[d] = c
DigitVal(c) == (CHOOSE d \in 1..Len(DigitChars) : DigitChars[d] = c) - 1

RECURSIVE DigitsOf(_)
DigitsOf(n) ==
    IF n < 10 THEN <<DigitChars[n + 1]>>
    ELSE DigitsOf(n \div 10) \o <<DigitChars[(n % 10) + 1]>>

RECURSIVE ValOfDigits(_)
ValOfDigits(s) ==
    IF s = <<>> THEN 0
    ELSE 10 * ValOfDigits(SubSeq(s, 1, Len(s) - 1)) + DigitVal(s[Len(s)])

\* str(x)
PyStr(v) ==
    CASE v.t = "str" -> v.s
      [] v.t = "num" -> DigitsOf(v.n)
      [] v.t = "bool" -> IF v.n = 1 THEN <<"T", "r", "u", "e">>
                         ELSE <<"F", "a", "l", "s", "e">>
      [] v.t = "arr" -> IF v.n = 0 THEN <<"[", "]">> ELSE <<"[", "1", "]">>
      [] v.t = "obj" -> IF v.n = 0 THEN <<"{", "}">>
                        ELSE <<"{", "'", "k", "'", ":", " ", "1", "}">>
      [] OTHER -> <<"N", "o", "n", "e">>

\* float(x): the number, or the exception raised
PyFloat(v) ==
    CASE v.t = "num" -> [exc |-> "none", val |-> Num(v.n)]
      [] v.t = "bool" -> [exc |-> "none", val |-> Num(v.n)]
      [] v.t = "str" ->
            LET d == Strip(v.s) IN
            IF d # <<>> /\ \A i \in 1..Len(d) : IsDigit(d[i])
            THEN [exc |-> "none", val |-> Num(ValOfDigits(d))]
            ELSE [exc |-> "ValueError", val |-> Null]
      [] OTHER -> [exc |-> "TypeError", val |-> Null]

\* ---------------------------------------------------------------- requests
Fields == {"title", "category", "description", "value", "memo", "timestamp"}
EmptyFields == [k \in Fields |-> Absent]

\* The body request.get_json() yields: a JSON object (its known keys, and
\* whether it has other keys), any other JSON value, or a parse failure.
DictBody(f, extra) == [kind |-> "dict", v |-> Null, f |-> f, extra |-> extra]
ValueBody(v) == [kind |-> "value", v |-> v, f |-> EmptyFields, extra |-> FALSE]
MalformedBody == [kind |-> "malformed", v |-> Null, f |-> EmptyFields, extra |-> FALSE]

SubmitReq(is_json, body) == [op |-> "submit", is_json |-> is_json, body |-> body, id |-> 0]
GetReq(id) == [op |-> "get", is_json |-> FALSE, body |-> ValueBody(Null), id |-> id]
ListReq == [op |-> "list", is_json |-> FALSE, body |-> ValueBody(Null), id |-> 0]
NoReq == [op |-> "none", is_json |-> FALSE, body |-> ValueBody(Null), id |-> 0]

StrVals == {Str(s) : s \in Strings}
BaseFields == [EmptyFields EXCEPT !["title"] = Str(<<"a">>), !["category"] = Str(<<"a">>)]
RequiredVals == {Absent, Null} \cup StrVals
OtherVals == {Num(0), Num(1), Arr(0)}
OptionalVals == {Null, Num(0)} \cup StrVals
ValueVals == {Null, Num(0), Num(1), Bool(TRUE), Str(<<>>), Str(<<"a">>),
              Str(<<"1">>), Str(<<" ", "1">>), Arr(0), Arr(1), Obj(1)}
TimestampVals == {Null, Str(<<"a">>)}

DictBodies ==
    {DictBody([EmptyFields EXCEPT !["title"] = x, !["category"] = y], FALSE) :
        x \in RequiredVals, y \in RequiredVals}
    \cup {DictBody([BaseFields EXCEPT !["title"] = x], FALSE) : x \in OtherVals}
    \cup {DictBody([BaseFields EXCEPT !["description"] = x], FALSE) : x \in OptionalVals}
    \cup {DictBody([BaseFields EXCEPT !["memo"] = x], FALSE) : x \in {Str(<<" ">>)}}
    \cup {DictBody([BaseFields EXCEPT !["value"] = x], FALSE) : x \in ValueVals}
    \cup {DictBody([BaseFields EXCEPT !["timestamp"] = x], FALSE) : x \in TimestampVals}
    \cup {DictBody(EmptyFields, TRUE)}

SubmitRequests ==
    {SubmitReq(TRUE, b) : b \in DictBodies}
    \cup {SubmitReq(TRUE, ValueBody(v)) :
            v \in {Null, Num(0), Num(1), Bool(FALSE), Str(<<>>), Str(<<"a">>), Arr(0), Arr(1)}}
    \cup {SubmitReq(TRUE, MalformedBody), SubmitReq(FALSE, ValueBody(Null))}

\* Two valid submissions that differ in their title
ValidRequests ==
    {SubmitReq(TRUE, DictBody([BaseFields EXCEPT !["title"] = Str(s)], FALSE)) :
        s \in {<<"a">>, <<"a", "a">>}}

\* dict.get(k): None for a missing key
Get(body, k) == IF body.f[k].t = "absent" THEN Null ELSE body.f[k]
\* dict.get(k, default)
GetDefault(body, k, default) == IF body.f[k].t = "absent" THEN default ELSE body.f[k]
\* `not data` on the parsed body
BodyTruthy(body) ==
    IF body.kind = "dict"
    THEN body.extra \/ \E k \in Fields : body.f[k].t # "absent"
    ELSE Truthy(body.v)

\* datetime.now().isoformat(): one instant stands for the server's clock
NowIso == Str(<<"T">>)

\* --------------------------------------------------------------- responses
NoResp ==
    [status |-> 0, error |-> "", has_missing |-> FALSE, missing_fields |-> <<>>,
     success |-> FALSE, id |-> 0, count |-> 0, data |-> <<>>]
ErrorResp(status, error) == [NoResp EXCEPT !.status = status, !.error = error]
MissingResp(missing) ==
    [NoResp EXCEPT !.status = 400, !.error = "Missing required fields",
                   !.has_missing = TRUE, !.missing_fields = missing]
CreatedResp(id) == [NoResp EXCEPT !.status = 201, !.success = TRUE, !.id = id]
\* get_data_by_id carries its record as a one-element data sequence
ItemResp(item) == [NoResp EXCEPT !.status = 200, !.success = TRUE, !.data = <<item>>]
ListResp(data) ==
    [NoResp EXCEPT !.status = 200, !.success = TRUE, !.count = Len(data), !.data = data]

RequiredFields == <<"title", "category">>
\* [field for field in required_fields if not data.get(field)]
MissingFields(body) ==
    SelectSeq(RequiredFields, LAMBDA k : ~Truthy(Get(body, k)))

\* str(data.get(k, '')).strip() if data.get(k) else None
OptionalStr(body, k) ==
    IF Truthy(Get(body, k)) THEN Str(Strip(PyStr(Get(body, k)))) ELSE Null

\* str(data.get(k, '')).strip()
RequiredStr(body, k) == Str(Strip(PyStr(GetDefault(body, k, Str(<<>>)))))

\* the dict literal sanitized_data, once float() has not raised; id is added later
Sanitized(body) ==
    [title |-> RequiredStr(body, "title"),
     description |-> OptionalStr(body, "description"),
     category |-> RequiredStr(body, "category"),
     value |-> IF Get(body, "value").t # "null"
               THEN PyFloat(Get(body, "value")).val ELSE Null,
     memo |-> OptionalStr(body, "memo"),
     timestamp |-> GetDefault(body, "timestamp", NowIso),
     received_at |-> NowIso,
     id |-> 0]

\* The exception float(data.get('value')) raises, "none" if it is not called or returns
FloatExc(body) ==
    IF Get(body, "value").t # "null" THEN PyFloat(Get(body, "value")).exc ELSE "none"

NoRecord ==
    [title |-> Null, description |-> Null, category |-> Null, value |-> Null,
     memo |-> Null, timestamp |-> Null, received_at |-> Null, id |-> 0]

\* submit_data up to the sanitized record: the response it returns early, or
\* "pass" with the record to persist
Validate(rq) ==
    IF ~rq.is_json
    THEN [resp |-> ErrorResp(400, "Content-Type must be application/json"), pass |-> FALSE]
    ELSE IF rq.body.kind = "malformed"
    \* get_json() raises BadRequest, caught by `except Exception`
    THEN [resp |-> ErrorResp(500, "Internal server error"), pass |-> FALSE]
    ELSE IF ~BodyTruthy(rq.body)
    THEN [resp |-> ErrorResp(400, "Empty request body"), pass |-> FALSE]
    ELSE IF rq.body.kind # "dict"
    \* data.get raises AttributeError
    THEN [resp |-> ErrorResp(500, "Internal server error"), pass |-> FALSE]
    ELSE IF MissingFields(rq.body) # <<>>
    THEN [resp |-> MissingResp(MissingFields(rq.body)), pass |-> FALSE]
    ELSE IF FloatExc(rq.body) = "ValueError"
    THEN [resp |-> ErrorResp(400, "Validation error"), pass |-> FALSE]
    ELSE IF FloatExc(rq.body) # "none"
    \* TypeError, caught by `except Exception`
    THEN [resp |-> ErrorResp(500, "Internal server error"), pass |-> FALSE]
    ELSE [resp |-> NoResp, pass |-> TRUE]

\* ------------------------------------------------------------------- store
\* The content of DATA_FILE: "json" holds the collection `data`; "empty" is the
\* file open(..., 'w') has just truncated; "partial" is an incomplete dump.
\* Neither of the last two parses.
JsonFile(data) == [state |-> "json", data |-> data]
EmptyFile == [state |-> "empty", data |-> <<>>]
PartialFile == [state |-> "partial", data |-> <<>>]

\* load_data(): the collection, or [] when the read or the parse raises
load_data(f, read_ok) == IF read_ok /\ f.state = "json" THEN f.data ELSE <<>>
\* whether load_data() logs its error
LoadFails(f, read_ok) == ~(read_ok /\ f.state = "json")

RECURSIVE MaxId(_)
MaxId(data) ==
    IF Len(data) = 1 THEN data[1].id
    ELSE LET m == MaxId(Tail(data)) IN IF data[1].id > m THEN data[1].id ELSE m

\* get_next_id without its "+ 1"
MutNextIdNoIncrement(data) == IF data = <<>> THEN 1 ELSE MaxId(data)

\* get_next_id() on the collection its load_data() returned
get_next_id(data) == IF data = <<>> THEN 1 ELSE MaxId(data) + 1

\* the scan keeping the last match instead of stopping at the first
RECURSIVE MutLastMatch(_, _)
MutLastMatch(data, id) ==
    IF data = <<>> THEN <<>>
    ELSE IF data[Len(data)].id = id THEN <<data[Len(data)]>>
    ELSE MutLastMatch(SubSeq(data, 1, Len(data) - 1), id)

\* next((item for item in all_data if item.get('id') == data_id), None)
RECURSIVE FirstMatch(_, _)
FirstMatch(data, id) ==
    IF data = <<>> THEN <<>>
    ELSE IF Head(data).id = id THEN <<Head(data)>>
    ELSE FirstMatch(Tail(data), id)

\* ------------------------------------------------------------------- state
VARIABLES
    file,            \* content of DATA_FILE
    pc,              \* where each worker is in its handler
    req,             \* the request a worker is handling
    resp,            \* the response it returned
    sanitized_data,  \* submit_data's local sanitized_data
    all_data,        \* submit_data's local all_data
    log,             \* the errors a worker logged for this request
    before,          \* DATA_FILE when the worker took its request
    saved            \* whether the worker has called save_data for this request

vars == <<file, pc, req, resp, sanitized_data, all_data, log, before, saved>>

\* Module start-up has created DATA_FILE holding []
Init ==
    /\ file = JsonFile(<<>>)
    /\ pc = [p \in Procs |-> "idle"]
    /\ req = [p \in Procs |-> NoReq]
    /\ resp = [p \in Procs |-> NoResp]
    /\ sanitized_data = [p \in Procs |-> NoRecord]
    /\ all_data = [p \in Procs |-> <<>>]
    /\ log = [p \in Procs |-> {}]
    /\ before = [p \in Procs |-> JsonFile(<<>>)]
    /\ saved = [p \in Procs |-> FALSE]

\* A worker takes a request
Accept(p, rq) ==
    /\ pc[p] = "idle"
    /\ req' = [req EXCEPT ![p] = rq]
    /\ before' = [before EXCEPT ![p] = file]
    /\ saved' = [saved EXCEPT ![p] = FALSE]

\* submit_data with float() applied only after the record has been appended
\* and saved: a value that does not parse is refused after the write
MutReceiveSaveFirst(p, rq) ==
    /\ pc[p] = "idle"
    /\ Len(file.data) < MaxRecords
    /\ get_next_id(file.data) <= MaxRecords
    /\ req' = [req EXCEPT ![p] = rq]
    /\ before' = [before EXCEPT ![p] = file]
    /\ IF Validate(rq).pass
       THEN /\ sanitized_data' = [sanitized_data EXCEPT ![p] = Sanitized(rq.body)]
            /\ pc' = [pc EXCEPT ![p] = "next_id"]
            /\ UNCHANGED <<resp, file, saved>>
       ELSE /\ resp' = [resp EXCEPT ![p] = Validate(rq).resp]
            /\ pc' = [pc EXCEPT ![p] = "done"]
            /\ IF Validate(rq).resp.error = "Validation error"
               THEN /\ file' = JsonFile(Append(load_data(file, TRUE), Sanitized(rq.body)))
                    /\ saved' = [saved EXCEPT ![p] = TRUE]
               ELSE UNCHANGED <<file, saved>>
            /\ UNCHANGED sanitized_data
    /\ UNCHANGED <<all_data, log>>

\* submit_data up to sanitized_data: validation and sanitization
Receive(p, rq) ==
    /\ Accept(p, rq)
    /\ Len(file.data) < MaxRecords
    /\ get_next_id(file.data) <= MaxRecords
    /\ IF Validate(rq).pass
       THEN /\ sanitized_data' = [sanitized_data EXCEPT ![p] = Sanitized(rq.body)]
            /\ pc' = [pc EXCEPT ![p] = "next_id"]
            /\ UNCHANGED resp
       ELSE /\ resp' = [resp EXCEPT ![p] = Validate(rq).resp]
            /\ pc' = [pc EXCEPT ![p] = "done"]
            /\ UNCHANGED sanitized_data
    /\ UNCHANGED <<file, all_data, log>>

\* sanitized_data['id'] = get_next_id()
NextId(p, read_ok) ==
    /\ pc[p] = "next_id"
    /\ sanitized_data' = [sanitized_data EXCEPT
                            ![p].id = get_next_id(load_data(file, read_ok))]
    /\ log' = [log EXCEPT ![p] = IF LoadFails(file, read_ok)
                                 THEN @ \cup {"load_error"} ELSE @]
    /\ pc' = [pc EXCEPT ![p] = "load"]
    /\ UNCHANGED <<file, req, resp, all_data, before, saved>>

\* all_data = load_data(); all_data.append(sanitized_data)
Load(p, read_ok) ==
    /\ pc[p] = "load"
    /\ all_data' = [all_data EXCEPT
                      ![p] = Append(load_data(file, read_ok), sanitized_data[p])]
    /\ log' = [log EXCEPT ![p] = IF LoadFails(file, read_ok)
                                 THEN @ \cup {"load_error"} ELSE @]
    /\ pc' = [pc EXCEPT ![p] = "save_open"]
    /\ UNCHANGED <<file, req, resp, sanitized_data, before, saved>>

\* save_data: open(DATA_FILE, 'w') truncates the file, or raises and leaves it
SaveOpen(p, open_ok) ==
    /\ pc[p] = "save_open"
    /\ saved' = [saved EXCEPT ![p] = TRUE]
    /\ IF open_ok
       THEN /\ file' = EmptyFile
            /\ pc' = [pc EXCEPT ![p] = "save_dump"]
            /\ UNCHANGED <<resp, log>>
       ELSE /\ log' = [log EXCEPT ![p] = @ \cup {"save_error"}]
            /\ resp' = [resp EXCEPT ![p] = ErrorResp(500, "Failed to save data")]
            /\ pc' = [pc EXCEPT ![p] = "done"]
            /\ UNCHANGED file
    /\ UNCHANGED <<req, sanitized_data, all_data, before>>

\* save_data: json.dump and close write the collection from offset 0, or raise
\* part-way.  Written over a file another worker has filled since this worker's
\* open, a shorter dump leaves the other's tail behind it.
SaveDump(p, dump_ok, covers) ==
    /\ pc[p] = "save_dump"
    /\ (file.state = "empty" => covers)
    /\ IF dump_ok
       THEN /\ file' = IF covers THEN JsonFile(all_data[p]) ELSE PartialFile
            /\ resp' = [resp EXCEPT ![p] = CreatedResp(sanitized_data[p].id)]
            /\ UNCHANGED log
       ELSE /\ file' = PartialFile
            /\ log' = [log EXCEPT ![p] = @ \cup {"save_error"}]
            /\ resp' = [resp EXCEPT ![p] = ErrorResp(500, "Failed to save data")]
    /\ pc' = [pc EXCEPT ![p] = "done"]
    /\ UNCHANGED <<req, sanitized_data, all_data, before, saved>>

\* get_all_data
ListAll(p, read_ok) ==
    /\ Accept(p, ListReq)
    /\ resp' = [resp EXCEPT ![p] = ListResp(load_data(file, read_ok))]
    /\ log' = [log EXCEPT ![p] = IF LoadFails(file, read_ok) THEN @ \cup {"load_error"} ELSE @]
    /\ pc' = [pc EXCEPT ![p] = "done"]
    /\ UNCHANGED <<file, sanitized_data, all_data>>

\* get_data_by_id
GetByID(p, id, read_ok) ==
    /\ Accept(p, GetReq(id))
    /\ LET data_item == FirstMatch(load_data(file, read_ok), id) IN
       resp' = [resp EXCEPT ![p] = IF data_item = <<>>
                                   THEN ErrorResp(404, "Data not found")
                                   ELSE ItemResp(data_item[1])]
    /\ log' = [log EXCEPT ![p] = IF LoadFails(file, read_ok) THEN @ \cup {"load_error"} ELSE @]
    /\ pc' = [pc EXCEPT ![p] = "done"]
    /\ UNCHANGED <<file, sanitized_data, all_data>>

\* The response has gone out; the worker is free again
Return(p) ==
    /\ pc[p] = "done"
    /\ pc' = [pc EXCEPT ![p] = "idle"]
    /\ req' = [req EXCEPT ![p] = NoReq]
    /\ resp' = [resp EXCEPT ![p] = NoResp]
    /\ sanitized_data' = [sanitized_data EXCEPT ![p] = NoRecord]
    /\ all_data' = [all_data EXCEPT ![p] = <<>>]
    /\ log' = [log EXCEPT ![p] = {}]
    /\ before' = [before EXCEPT ![p] = JsonFile(<<>>)]
    /\ saved' = [saved EXCEPT ![p] = FALSE]
    /\ UNCHANGED file

Ids == 1..(MaxRecords + 1)

\* The worker of a server that handles one request at a time
Worker == CHOOSE p \in Procs : \A q \in Procs : p <= q

\* Requests handled one at a time, with any request body; reads of DATA_FILE
\* succeed as `reads` allows and writes as `writes` allows
Serve(reads, writes) ==
    \/ \E rq \in SubmitRequests : Receive(Worker, rq)
    \/ \E ok \in reads : NextId(Worker, ok)
    \/ \E ok \in reads : Load(Worker, ok)
    \/ \E ok \in writes : SaveOpen(Worker, ok)
    \/ \E ok \in writes : SaveDump(Worker, ok, TRUE)
    \/ \E ok \in reads : ListAll(Worker, ok)
    \/ \E id \in Ids, ok \in reads : GetByID(Worker, id, ok)
    \/ Return(Worker)

\* Reads and writes of DATA_FILE may fail
Next == Serve(BOOLEAN, BOOLEAN)
Spec == Init /\ [][Next]_vars

\* No read or write of DATA_FILE fails
NextSeq == Serve({TRUE}, {TRUE})
SpecSeq == Init /\ [][NextSeq]_vars

\* Only reads of DATA_FILE may fail
NextReadFail == Serve(BOOLEAN, {TRUE})
SpecReadFail == Init /\ [][NextReadFail]_vars

\* Only writes of DATA_FILE may fail
NextSaveFail == Serve({TRUE}, BOOLEAN)
SpecSaveFail == Init /\ [][NextSaveFail]_vars

\* Every worker handles one valid submission, the workers' steps interleave
\* freely, and no read or write of DATA_FILE fails
NextConc ==
    \E p \in Procs :
        \/ \E rq \in ValidRequests : Receive(p, rq)
        \/ NextId(p, TRUE)
        \/ Load(p, TRUE)
        \/ SaveOpen(p, TRUE)
        \/ \E covers \in BOOLEAN : SaveDump(p, TRUE, covers)

SpecConc == Init /\ [][NextConc]_vars

\* ------------------------------------------------------------------ claims
Done(p) == pc[p] = "done"
SubmitDone(p) == Done(p) /\ req[p].op = "submit"
HasId(data, id) == \E i \in 1..Len(data) : data[i].id = id
IsPrefix(a, b) == Len(a) <= Len(b) /\ \A i \in 1..Len(a) : a[i] = b[i]
DistinctIds(data) ==
    \A i, j \in 1..Len(data) : i # j => data[i].id # data[j].id

\* C1: once N concurrent valid submissions against an empty store have all
\* returned 201, the file holds exactly N records with N distinct ids.
C1_NoLostUpdateNoDuplicateId ==
    (\A p \in Procs : Done(p) /\ resp[p].status = 201) =>
        /\ file.state = "json"
        /\ Len(file.data) = NProcs
        /\ DistinctIds(file.data)

\* C2: with requests handled one after another and no store failure, a
\* successful submission gets id 1 on an empty collection and otherwise the
\* largest id plus one; the k-th record of the collection has id k, and the
\* id exceeds every id assigned before.
C2_SequentialIds ==
    /\ file.state = "json" => \A i \in 1..Len(file.data) : file.data[i].id = i
    /\ \A p \in Procs :
          (SubmitDone(p) /\ resp[p].status = 201) =>
             /\ before[p].data = <<>> => resp[p].id = 1
             /\ before[p].data # <<>> =>
                   /\ HasId(before[p].data, resp[p].id - 1)
                   /\ \A i \in 1..Len(before[p].data) : before[p].data[i].id < resp[p].id
             /\ resp[p].id = Len(before[p].data) + 1
             /\ file = JsonFile(Append(before[p].data, sanitized_data[p]))
             /\ sanitized_data[p].id = resp[p].id

\* C2 witness: the second successful submission has returned with id 2
C2_Witness ==
    \E p \in Procs :
        /\ SubmitDone(p)
        /\ resp[p].status = 201
        /\ resp[p].id = 2
        /\ Len(file.data) = 2

\* C3: at the end of every call, the records persisted before the call are
\* still persisted, unchanged and in place: the collection from before the call
\* is a prefix of the persisted collection.
C3_AppendOnly ==
    \A p \in Procs :
        Done(p) =>
            /\ file.state = "json"
            /\ IsPrefix(before[p].data, file.data)

\* absent, null or the empty string
AbsentOrEmpty(v) == v.t \in {"absent", "null"} \/ (v.t = "str" /\ v.s = <<>>)
\* absent, null, or a string that is empty once trimmed
Blank(v) == v.t \in {"absent", "null"} \/ (v.t = "str" /\ Strip(v.s) = <<>>)

\* C4: a JSON object with title or category absent or empty is answered 400
\* with missing_fields listing exactly the absent or empty required fields, in
\* the order title, category; {} lists both.
C4_AllMissingReported ==
    \A p \in Procs :
        (/\ SubmitDone(p)
         /\ req[p].is_json
         /\ req[p].body.kind = "dict"
         /\ \E k \in {"title", "category"} : AbsentOrEmpty(req[p].body.f[k])) =>
            /\ resp[p].status = 400
            /\ resp[p].has_missing
            /\ resp[p].missing_fields =
                  SelectSeq(RequiredFields, LAMBDA k : AbsentOrEmpty(req[p].body.f[k]))

\* C5: every persisted record has a non-empty title and category, and a
\* submission whose title or category is absent, empty or blank is answered 400
\* and saves nothing.
C5_RequiredNonEmpty ==
    /\ \A i \in 1..Len(file.data) :
          /\ file.data[i].title.t = "str" /\ file.data[i].title.s # <<>>
          /\ file.data[i].category.t = "str" /\ file.data[i].category.s # <<>>
    /\ \A p \in Procs :
          (/\ SubmitDone(p)
           /\ req[p].is_json
           /\ req[p].body.kind = "dict"
           /\ \E k \in {"title", "category"} : Blank(req[p].body.f[k])) =>
              (resp[p].status = 400 /\ ~saved[p])

\* C6: description and memo of every persisted record are null or a non-empty
\* string, never the empty string.
C6_OptionalNullNotEmpty ==
    \A i \in 1..Len(file.data) :
        /\ file.data[i].description # Str(<<>>)
        /\ file.data[i].memo # Str(<<>>)

\* C7: a submission with valid required fields whose value is present, not
\* null, and not coercible to a float is answered with the 400 validation error
\* and saves nothing.
C7_BadValueIs400 ==
    \A p \in Procs :
        (/\ SubmitDone(p)
         /\ req[p].is_json
         /\ req[p].body.kind = "dict"
         /\ \A k \in {"title", "category"} : ~Blank(req[p].body.f[k])
         /\ req[p].body.f["value"].t \in {"str", "arr", "obj"}
         /\ PyFloat(req[p].body.f["value"]).exc # "none") =>
            /\ resp[p].status = 400
            /\ resp[p].error = "Validation error"
            /\ ~saved[p]

\* C8: a submission answered 400 has not called save_data, and the file is as
\* it was when the call began.
C8_RejectedBeforePersistence ==
    \A p \in Procs :
        (SubmitDone(p) /\ resp[p].status = 400) =>
            (~saved[p] /\ file = before[p])

\* C8 witness: a non-numeric value refused with 400 on a store that already
\* holds a record
C8_Witness ==
    \E p \in Procs :
        /\ SubmitDone(p)
        /\ resp[p].status = 400
        /\ resp[p].error = "Validation error"
        /\ Len(before[p].data) = 1

\* C9: when save_data fails, the submission is answered 500 and what load_data
\* returns afterwards is what it returned before the call.
C9_FailedSaveCommitsNothing ==
    \A p \in Procs :
        (SubmitDone(p) /\ "save_error" \in log[p]) =>
            /\ resp[p].status = 500
            /\ load_data(file, TRUE) = load_data(before[p], TRUE)

\* The first record of data with this id
FirstWithId(data, id) ==
    data[CHOOSE i \in 1..Len(data) :
            data[i].id = id /\ \A j \in 1..(i - 1) : data[j].id # id]

\* What get_data_by_id must answer for id on the collection data
GetAnswers(p, data) ==
    /\ resp[p].status = 404 <=> ~HasId(data, req[p].id)
    /\ HasId(data, req[p].id) =>
          /\ resp[p].status = 200
          /\ resp[p].data = <<FirstWithId(data, req[p].id)>>
    /\ file = before[p]

\* C10 as stated: get_data_by_id answers 404 exactly when no persisted record
\* has the id, otherwise 200 with the first persisted record of that id, and
\* leaves the file alone.
C10_Original ==
    \A p \in Procs :
        (Done(p) /\ req[p].op = "get" /\ file.state = "json") =>
            GetAnswers(p, file.data)

\* C10 amended: get_data_by_id answers 404 exactly when the collection its
\* load_data returned holds no record of the id (the persisted collection, or
\* the empty one when the read failed and was logged), otherwise 200 with the
\* first such record, and leaves the file alone.
C10_GetByIdOnLoaded ==
    \A p \in Procs :
        (Done(p) /\ req[p].op = "get") =>
            GetAnswers(p, IF "load_error" \in log[p] THEN <<>> ELSE file.data)

\* C10 witness: two different persisted records share the requested id and the
\* call has answered 200
C10_Witness ==
    \E p \in Procs :
        /\ Done(p)
        /\ req[p].op = "get"
        /\ resp[p].status = 200
        /\ \E i, j \in 1..Len(file.data) :
              /\ i < j
              /\ file.data[i].id = req[p].id
              /\ file.data[j].id = req[p].id
              /\ file.data[i] # file.data[j]

====
